---- MODULE Spec2Model ----
(***************************************************************************)
(* Model of src/article-schema.js: the node and mark catalogs of the       *)
(* article schema, the evaluation of the module (object literals, the      *)
(* five delete statements, new Schema) and the toDOM / getAttrs hooks of   *)
(* every type, together with colorToHex and the table cell background      *)
(* attribute.                                                              *)
(*                                                                         *)
(* JavaScript values are records: a string is [type |-> "string", v |->    *)
(* <<tokens>>] (a sequence of characters or of longer pieces that the code *)
(* never splits), null is [type |-> "null"], a number is [type |->         *)
(* "number", n |-> i].  A markup element is [tag, attrs] where attrs is a  *)
(* function whose domain is the set of attributes that are present.        *)
(***************************************************************************)
EXTENDS Integers, Sequences, FiniteSets, TLC

VARIABLES pc, heap, nodes, schema, call

vars == <<pc, heap, nodes, schema, call>>

-----------------------------------------------------------------------------
(* JavaScript values *)

Str(s) == [type |-> "string", v |-> s]

Null == [type |-> "null"]

Num(i) == [type |-> "number", n |-> i]

None == [type |-> "none"]

IsStr(x) == x.type = "string"

\* JavaScript truthiness of a string-or-null value: null and '' are falsy.
Truthy(x) == IsStr(x) /\ x.v # <<>>

\* a + b on two strings
Concat(a, b) == Str(a.v \o b.v)

-----------------------------------------------------------------------------
(* The markup element the hooks read and the serializer writes *)

\* dom.getAttribute(name): the value, or null when the attribute is absent
getAttribute(dom, name) ==
    IF name \in DOMAIN dom.attrs THEN dom.attrs[name] ELSE Null

\* What the serializer does with the attribute object a toDOM returns: an
\* attribute whose value is null is not set on the element.
renderSpec(tag, attrs) ==
    [tag |-> tag,
     attrs |-> [a \in {b \in DOMAIN attrs : attrs[b] # Null} |-> attrs[a]]]

-----------------------------------------------------------------------------
(* The node catalog (const nodes) *)

\* The symbols of a content expression that are not names.
ContentOperators == {"(", ")", "|", "+", "*", "?"}

\* The names a content expression refers to.
ContentRefs(expr) ==
    {expr[i] : i \in DOMAIN expr} \ ContentOperators

NodeSpec(content, group) == [content |-> content, group |-> group]

NoGroup == ""

\* tableNodes({tableGroup, cellContent, cellAttributes}): the four node
\* specs the table factory returns for these options.
tableNodes(tableGroup, cellContent) ==
    [table        |-> NodeSpec(<<"table_row", "+">>, tableGroup),
     table_row    |-> NodeSpec(<<"(", "table_cell", "|", "table_header", ")", "*">>, NoGroup),
     table_cell   |-> NodeSpec(cellContent, NoGroup),
     table_header |-> NodeSpec(cellContent, NoGroup)]

\* As OwnNodes, had the line break been given the name hard_break.
OwnNodesHardBreakRenamed ==
    [doc        |-> NodeSpec(<<"block", "+">>, NoGroup),
     text       |-> NodeSpec(<<>>, "inline"),
     hard_break |-> NodeSpec(<<>>, "inline"),
     paragraph  |-> NodeSpec(<<"inline", "*">>, "block"),
     image      |-> NodeSpec(<<>>, "block"),
     video      |-> NodeSpec(<<>>, "block"),
     quote      |-> NodeSpec(<<"(", "text", "|", "hardBreak", ")", "+">>, "block"),
     borderline |-> NodeSpec(<<>>, "block"),
     headline   |-> NodeSpec(<<"(", "text", "|", "hardBreak", ")", "+">>, "block")]

\* The hand written part of the object literal.
OwnNodes ==
    [doc        |-> NodeSpec(<<"block", "+">>, NoGroup),
     text       |-> NodeSpec(<<>>, "inline"),
     hardBreak  |-> NodeSpec(<<>>, "inline"),
     paragraph  |-> NodeSpec(<<"inline", "*">>, "block"),
     image      |-> NodeSpec(<<>>, "block"),
     video      |-> NodeSpec(<<>>, "block"),
     quote      |-> NodeSpec(<<"(", "text", "|", "hardBreak", ")", "+">>, "block"),
     borderline |-> NodeSpec(<<>>, "block"),
     headline   |-> NodeSpec(<<"(", "text", "|", "hardBreak", ")", "+">>, "block")]

\* The whole literal: the spread of tableNodes(...) comes last, so its keys
\* win over equal keys written before it.
NodesLiteral ==
    tableNodes("block", <<"paragraph", "+">>) @@ OwnNodes

\* The groups at least one node type of a catalog declares.
Groups(catalog) ==
    {catalog[n].group : n \in DOMAIN catalog} \ {NoGroup}

\* The names some content model of a catalog uses and nothing defines.
Dangling(catalog) ==
    UNION {ContentRefs(catalog[n].content) : n \in DOMAIN catalog}
        \ (DOMAIN catalog \cup Groups(catalog))

-----------------------------------------------------------------------------
(* The mark catalog (const marks) and the imported basicMakrs object *)

\* Objects are kept in a heap so that two names for one object share its
\* keys.  An object is the set of its own property names.
BasicMarksRef == "obj:prosemirror-schema-basic.marks"

\* The keys of the marks export of prosemirror-schema-basic.
BasicMarkKeys == {"link", "em", "strong", "code"}

\* As MarksRef, had marks been another name for the imported object.
MarksRefAliased == BasicMarksRef

\* The object literal of line 161 allocates a new object.
MarksRef == "obj:marks"

\* The keys written in the literal after the spread.
OwnMarkKeys == {"fontSize", "color", "underline"}

\* {...src, k1: .., k2: ..}: every key of src, then the literal's own keys
MarksLiteral(h) == h[BasicMarksRef] \cup OwnMarkKeys

\* delete obj.key
DeleteProperty(h, ref, key) == [h EXCEPT ![ref] = @ \ {key}]

-----------------------------------------------------------------------------
(* The hooks of the node types that carry attributes *)

\* `${x}` in a template literal
TemplateString(x) == IF IsStr(x) THEN x ELSE Str(<<"null">>)

\* The text-align keywords a style declaration may carry; any other value
\* makes the declaration invalid and it is dropped.
CssTextAlignKeywords == {"left", "right", "center", "justify", "start", "end"}

\* dom.style.textAlign: the value of a valid text-align declaration of the
\* style attribute, '' when there is none.
styleTextAlign(dom) ==
    LET s == getAttribute(dom, "style") IN
    IF /\ IsStr(s)
       /\ Len(s.v) = 2
       /\ s.v[1] = "text-align: "
       /\ s.v[2] \in CssTextAlignKeywords
    THEN Str(<<s.v[2]>>)
    ELSE Str(<<>>)

\* As MatchesAlign, had the test been only that the value is not empty.
MatchesAlignNonEmpty(x) == x.v # <<>>

\* x.match(/^(left|center|right)$/)
MatchesAlign(x) == x.v \in {<<"left">>, <<"center">>, <<"right">>}

\* As MatchesStyle, had the pattern been /^\d$/.
MatchesStyleAnyDigit(x) ==
    x.v \in {<<"0">>, <<"1">>, <<"2">>, <<"3">>, <<"4">>, <<"5">>, <<"6">>, <<"7">>, <<"8">>, <<"9">>}

\* x.match(/^(1|2|3|4)$/)
MatchesStyle(x) == x.v \in {<<"1">>, <<"2">>, <<"3">>, <<"4">>}

paragraph_toDOM(node) ==
    renderSpec("p",
        [style |-> Concat(Str(<<"text-align: ">>), TemplateString(node.attrs.align))])

paragraph_getAttrs(dom) ==
    [align |-> IF MatchesAlign(styleTextAlign(dom))
               THEN styleTextAlign(dom)
               ELSE Str(<<"left">>)]

image_toDOM(node) ==
    renderSpec("img", [src |-> node.attrs.src, alt |-> node.attrs.desc])

\* As image_getAttrs, had desc been read from an attribute named desc.
image_getAttrsReadsDesc(dom) ==
    [src  |-> getAttribute(dom, "src"),
     desc |-> getAttribute(dom, "desc")]

image_getAttrs(dom) ==
    [src  |-> getAttribute(dom, "src"),
     desc |-> getAttribute(dom, "alt")]

video_toDOM(node) ==
    renderSpec("div",
        ("data-node" :> Str(<<"video">>))
        @@ ("data-source" :> node.attrs.source)
        @@ ("data-source-id" :> node.attrs.source_id)
        @@ ("data-url" :> node.attrs.url)
        @@ ("data-title" :> node.attrs.title)
        @@ ("data-thumbnail" :> node.attrs.thumbnail))

video_getAttrs(dom) ==
    [source    |-> getAttribute(dom, "data-source"),
     source_id |-> getAttribute(dom, "data-source-id"),
     url       |-> getAttribute(dom, "data-url"),
     title     |-> getAttribute(dom, "data-title"),
     thumbnail |-> getAttribute(dom, "data-thumbnail")]

borderline_toDOM(node) ==
    renderSpec("hr", ("data-style" :> node.attrs.style))

borderline_getAttrs(dom) ==
    LET styleFromDom == getAttribute(dom, "data-style") IN
    [style |-> IF Truthy(styleFromDom)
               THEN IF MatchesStyle(styleFromDom) THEN styleFromDom ELSE Str(<<"1">>)
               ELSE Str(<<"1">>)]

-----------------------------------------------------------------------------
(* colorToHex and the color parser it calls *)

\* The digits Number.prototype.toString(16) writes.
HexDigits == <<"0", "1", "2", "3", "4", "5", "6", "7",
               "8", "9", "a", "b", "c", "d", "e", "f">>

\* The characters [0-9a-fA-F] and the value parseInt(.., 16) gives each.
HexValue ==
    [c \in {HexDigits[i] : i \in 1..16} |-> CHOOSE i \in 0..15 : HexDigits[i + 1] = c]
    @@ ("A" :> 10) @@ ("B" :> 11) @@ ("C" :> 12) @@ ("D" :> 13) @@ ("E" :> 14) @@ ("F" :> 15)

IsHex(chars) == \A i \in DOMAIN chars : chars[i] \in DOMAIN HexValue

RECURSIVE parseInt16(_)
\* parseInt(chars, 16) for a non-empty run of hexadecimal characters
parseInt16(chars) ==
    IF chars = <<>> THEN 0
    ELSE parseInt16(SubSeq(chars, 1, Len(chars) - 1)) * 16 + HexValue[chars[Len(chars)]]

\* An unsigned 32 bit integer is kept as its two 16 bit halves, hi * 2^16 + lo.
U32(hi, lo) == [type |-> "number", hi |-> hi, lo |-> lo]

\* parseInt(chars, 16) >>> 0 for up to eight hexadecimal characters (the
\* value is below 2^32, so >>> 0 leaves it as it is).
parseHex32(chars) ==
    LET k == Len(chars)
        cut == IF k > 4 THEN k - 4 ELSE 0
    IN  U32(parseInt16(SubSeq(chars, 1, cut)), parseInt16(SubSeq(chars, cut + 1, k)))

RECURSIVE digits16(_)
\* The hexadecimal digits of an integer n >= 0: no leading zeros, '0' for 0
digits16(n) ==
    IF n < 16 THEN <<HexDigits[n + 1]>>
    ELSE digits16(n \div 16) \o <<HexDigits[(n % 16) + 1]>>

\* colorValue.toString(16) of an unsigned 32 bit integer
toString16(x) ==
    IF x.hi = 0 THEN digits16(x.lo)
    ELSE digits16(x.hi)
         \o <<HexDigits[(x.lo \div 4096) + 1], HexDigits[((x.lo \div 256) % 16) + 1],
              HexDigits[((x.lo \div 16) % 16) + 1], HexDigits[(x.lo % 16) + 1]>>

\* Some entries of the parser's table of color names (0xRRGGBBAA).
ColorNames ==
    ("transparent" :> U32(0, 0)) @@ ("black" :> U32(0, 255)) @@ ("navy" :> U32(0, 33023))
    @@ ("blue" :> U32(0, 65535)) @@ ("red" :> U32(65280, 255)) @@ ("white" :> U32(65535, 65535))

\* The decimal numbers tried inside rgb( ) and what parseInt gives them.
DecimalValue ==
    ("0" :> 0) @@ ("1" :> 1) @@ ("15" :> 15) @@ ("16" :> 16)
    @@ ("171" :> 171) @@ ("255" :> 255) @@ ("300" :> 300)

\* The parser's clamp of an rgb( ) component to one byte.
parse255(tok) == IF DecimalValue[tok] > 255 THEN 255 ELSE DecimalValue[tok]

IsRgb(c) ==
    /\ Len(c) = 7
    /\ c[1] = "rgb(" /\ c[3] = ", " /\ c[5] = ", " /\ c[7] = ")"
    /\ \A i \in {2, 4, 6} : c[i] \in DOMAIN DecimalValue

\* normalizeColor(color) of normalize-css-color: the color as the unsigned
\* 32 bit integer 0xRRGGBBAA, or null when no format matches.  The formats
\* are tried in the parser's order; hsl( ) and rgba( ) inputs are not among
\* the inputs tried here.
normalizeColor(color) ==
    LET c == color.v IN
    IF ~IsStr(color) THEN Null
    ELSE IF Len(c) = 7 /\ c[1] = "#" /\ IsHex(Tail(c))
        THEN parseHex32(Tail(c) \o <<"f", "f">>)
    ELSE IF Len(c) = 1 /\ c[1] \in DOMAIN ColorNames
        THEN ColorNames[c[1]]
    ELSE IF IsRgb(c)
        THEN U32(parse255(c[2]) * 256 + parse255(c[4]), parse255(c[6]) * 256 + 255)
    ELSE IF Len(c) = 4 /\ c[1] = "#" /\ IsHex(Tail(c))
        THEN parseHex32(<<c[2], c[2], c[3], c[3], c[4], c[4], "f", "f">>)
    ELSE IF Len(c) = 9 /\ c[1] = "#" /\ IsHex(Tail(c))
        THEN parseHex32(Tail(c))
    ELSE IF Len(c) = 5 /\ c[1] = "#" /\ IsHex(Tail(c))
        THEN parseHex32(<<c[2], c[2], c[3], c[3], c[4], c[4], c[5], c[5]>>)
    ELSE Null

\* What a call that throws leaves its caller with.
TypeError == [type |-> "TypeError"]

\* As padLoop, had the loop been left out.
padLoopSkipped(hex, i, pad) == hex

RECURSIVE padLoop(_, _, _)
\* for (let i = 0; i < pad; i++) hex = '0' + hex
padLoop(hex, i, pad) ==
    IF i < pad THEN padLoop(<<"0">> \o hex, i + 1, pad) ELSE hex

\* hex.slice(0, end) for 0 <= end
slice0(hex, end) == SubSeq(hex, 1, IF end < Len(hex) THEN end ELSE Len(hex))

\* Width the hexadecimal text is padded to.
PadWidth == 8

\* Number of leading digits kept.
KeptDigits == 6

\* colorToHex(color): reading toString of null throws a TypeError.
colorToHex(color) ==
    LET colorValue == normalizeColor(color) IN
    IF colorValue = Null THEN TypeError
    ELSE LET hex == toString16(colorValue)
             pad == PadWidth - Len(hex)
         IN  Concat(Str(<<"#">>), Str(slice0(padLoop(hex, 0, pad), KeptDigits)))

-----------------------------------------------------------------------------
(* The hooks of the fontSize and color marks, and the table cell background *)

\* The value of the declaration of one property in an element's style
\* attribute, as a style parse rule is given it; null when there is none.
styleValue(dom, property) ==
    LET s == getAttribute(dom, "style") IN
    IF IsStr(s) /\ Len(s.v) >= 1 /\ s.v[1] = property
    THEN Str(Tail(s.v))
    ELSE Null

fontSize_toDOM(node) ==
    LET size == node.attrs.size
        fontSize == CASE size = Num(1) -> Str(<<"60%">>)
                      [] size = Num(2) -> Str(<<"80%">>)
                      [] size = Num(4) -> Str(<<"120%">>)
                      [] size = Num(5) -> Str(<<"140%">>)
                      [] OTHER -> Str(<<"100%">>)
    IN  renderSpec("span", [style |-> Concat(Str(<<"font-size: ">>), fontSize)])

\* As fontSize_getAttrs, had the case '140%' been left out.
fontSize_getAttrsNo140(value) ==
    [size |-> CASE value = Str(<<"60%">>)  -> Num(1)
                [] value = Str(<<"80%">>)  -> Num(2)
                [] value = Str(<<"120%">>) -> Num(4)
                [] OTHER -> Num(3)]

fontSize_getAttrs(value) ==
    [size |-> CASE value = Str(<<"60%">>)  -> Num(1)
                [] value = Str(<<"80%">>)  -> Num(2)
                [] value = Str(<<"120%">>) -> Num(4)
                [] value = Str(<<"140%">>) -> Num(5)
                [] OTHER -> Num(3)]

color_toDOM(node) ==
    renderSpec("span",
        [style |-> Concat(Str(<<"color: ">>), TemplateString(node.attrs.color))])

\* getAttrs of both color rules: the object literal is built from what
\* colorToHex returns, so a throw inside it leaves getAttrs by the throw.
color_getAttrs(value) ==
    IF colorToHex(value) = TypeError THEN TypeError
    ELSE [color |-> colorToHex(value)]

\* As setDOMAttr, had the style been assigned instead of appended to.
setDOMAttrOverwrites(value, attrs) ==
    IF Truthy(value)
    THEN ("style" :> Concat(Str(<<"background-color: ">>), Concat(value, Str(<<";">>))))
         @@ attrs
    ELSE attrs

\* cellAttributes.background.setDOMAttr(value, attrs): the attrs object after
\* the call.
setDOMAttr(value, attrs) ==
    IF Truthy(value)
    THEN ("style" :> Concat(IF "style" \in DOMAIN attrs THEN attrs["style"] ELSE Str(<<>>),
                            Concat(Str(<<"background-color: ">>),
                                   Concat(value, Str(<<";">>)))))
         @@ attrs
    ELSE attrs

-----------------------------------------------------------------------------
(* Dispatch: which hook a node, a mark or an element goes to *)

\* type.spec.toDOM(node) for a node or a mark
toDOM(node) ==
    CASE node.type = "paragraph"  -> paragraph_toDOM(node)
      [] node.type = "image"      -> image_toDOM(node)
      [] node.type = "video"      -> video_toDOM(node)
      [] node.type = "borderline" -> borderline_toDOM(node)
      [] node.type = "fontSize"   -> fontSize_toDOM(node)
      [] node.type = "color"      -> color_toDOM(node)

\* The parse rule an element matches: a tag rule by the element's tag (the
\* video rule by its data-node attribute too, the font rule by the presence
\* of color), a style rule by the property the style attribute declares.
MatchingRule(dom) ==
    CASE dom.tag = "p"   -> "paragraph"
      [] dom.tag = "img" -> "image"
      [] dom.tag = "hr"  -> "borderline"
      [] dom.tag = "div" /\ getAttribute(dom, "data-node") = Str(<<"video">>) -> "video"
      [] dom.tag = "font" /\ getAttribute(dom, "color") # Null -> "font[color]"
      [] dom.tag = "span" /\ styleValue(dom, "font-size: ") # Null -> "font-size"
      [] dom.tag = "span" /\ styleValue(dom, "color: ") # Null -> "color"
      [] OTHER -> "none"

\* The getAttrs of the rule an element matches.
parseDOM(dom) ==
    CASE MatchingRule(dom) = "paragraph"   -> paragraph_getAttrs(dom)
      [] MatchingRule(dom) = "image"       -> image_getAttrs(dom)
      [] MatchingRule(dom) = "video"       -> video_getAttrs(dom)
      [] MatchingRule(dom) = "borderline"  -> borderline_getAttrs(dom)
      [] MatchingRule(dom) = "font-size"   -> fontSize_getAttrs(styleValue(dom, "font-size: "))
      [] MatchingRule(dom) = "color"       -> color_getAttrs(styleValue(dom, "color: "))
      [] MatchingRule(dom) = "font[color]" -> color_getAttrs(getAttribute(dom, "color"))
      [] OTHER -> None

-----------------------------------------------------------------------------
(* The inputs the schema's callers hand to the hooks *)

\* Longest free text attribute value tried.
MaxStrLen == 1

Alphabet == {"a", "b"}

TokenSeqs(n) == UNION {[1..k -> Alphabet] : k \in 0..n}

\* Free text values: '' and every string over Alphabet up to MaxStrLen.
Strings == {Str(t) : t \in TokenSeqs(MaxStrLen)}

StringsOrNull == Strings \cup {Null}

Node(type, attrs) == [type |-> type, attrs |-> attrs]

AlignValues == {Str(<<k>>) : k \in CssTextAlignKeywords \cup {"bogus"}}

StyleValues == {Str(<<k>>) : k \in {"1", "2", "3", "4", "9", "0", "12"}}

ParagraphNodes == {Node("paragraph", [align |-> a]) : a \in AlignValues}

ImageNodes ==
    {Node("image", [src |-> s, desc |-> d]) : s \in Strings, d \in StringsOrNull}

VideoNodes ==
    {Node("video", [source |-> a, source_id |-> b, url |-> c, title |-> d, thumbnail |-> e]) :
        a \in Strings, b \in Strings, c \in Strings, d \in Strings, e \in Strings}

BorderlineNodes == {Node("borderline", [style |-> x]) : x \in StyleValues}

Nodes == ParagraphNodes \cup ImageNodes \cup VideoNodes \cup BorderlineNodes

\* Markup that did not come from toDOM.  An attribute given as null is absent.
ParagraphElements ==
    {renderSpec("p", [style |-> x]) :
        x \in {Null, Str(<<>>), Str(<<"color: ", "red">>)}
              \cup {Str(<<"text-align: ", k>>) : k \in CssTextAlignKeywords \cup {"bogus"}}}

ImageElements ==
    {renderSpec("img", [src |-> x, alt |-> y]) : x \in StringsOrNull, y \in StringsOrNull}

VideoElements ==
    {renderSpec("div",
        ("data-node" :> Str(<<"video">>)) @@ ("data-source" :> a)
        @@ ("data-source-id" :> b) @@ ("data-url" :> c)
        @@ ("data-title" :> d) @@ ("data-thumbnail" :> e)) :
        a \in StringsOrNull, b \in StringsOrNull, c \in StringsOrNull,
        d \in StringsOrNull, e \in StringsOrNull}

BorderlineElements ==
    {renderSpec("hr", ("data-style" :> x)) : x \in StyleValues \cup StringsOrNull}

\* Largest font size level tried (the table has the levels 1 to 5).
MaxLevel == 6

FontSizeMarks == {Node("fontSize", [size |-> Num(i)]) : i \in 0..MaxLevel}

PercentValues ==
    {Str(<<k>>) : k \in {"60%", "80%", "100%", "120%", "140%", "50%", "160%", "60", "12px"}}
    \cup Strings

FontSizeElements ==
    {renderSpec("span", [style |-> Concat(Str(<<"font-size: ">>), x)]) : x \in PercentValues}

\* Channel bytes tried: both ends, a one digit value, the first two digit
\* value and a value with two letters.
ChannelValues == {0, 1, 15, 16, 171, 255}

Hex2(c) == <<HexDigits[(c \div 16) + 1], HexDigits[(c % 16) + 1]>>

Hex6Inputs ==
    {Str(<<"#">> \o Hex2(r) \o Hex2(g) \o Hex2(b)) :
        r \in ChannelValues, g \in ChannelValues, b \in ChannelValues}
    \cup {Str(<<"#", "F", "F", "A", "B", "0", "0">>)}

Hex8Inputs ==
    {Str(x.v \o Hex2(a)) : x \in Hex6Inputs, a \in ChannelValues}

ShortHexInputs ==
    {Str(<<"#", r, g, b>>) : r \in {"0", "1", "a", "F"}, g \in {"0", "1", "a", "F"},
                             b \in {"0", "1", "a", "F"}}
    \cup {Str(<<"#", r, g, b, a>>) : r \in {"0", "a", "F"}, g \in {"0", "a", "F"},
                                    b \in {"0", "a", "F"}, a \in {"0", "a", "F"}}

RgbInputs ==
    {Str(<<"rgb(", r, ", ", g, ", ", b, ")">>) :
        r \in DOMAIN DecimalValue, g \in DOMAIN DecimalValue, b \in DOMAIN DecimalValue}

NamedInputs == {Str(<<k>>) : k \in DOMAIN ColorNames}

\* Values no format of the parser matches.
UnknownInputs ==
    {Str(<<"inherit">>), Str(<<"currentColor">>), Str(<<"bogus">>),
     Str(<<"#", "1", "2">>), Str(<<"#", "g", "g", "g">>), Str(<<"transparent", " ">>)}

ColorInputs ==
    Hex6Inputs \cup Hex8Inputs \cup ShortHexInputs \cup RgbInputs
    \cup NamedInputs \cup UnknownInputs

ColorMarks ==
    {Node("color", [color |-> c]) : c \in Hex6Inputs \cup NamedInputs}

ColorElements ==
    {renderSpec("span", [style |-> Concat(Str(<<"color: ">>), c)]) : c \in ColorInputs}

FontElements ==
    {renderSpec("font", [color |-> c]) : c \in ColorInputs \cup {Str(<<>>)}}

Marks == FontSizeMarks \cup ColorMarks

Elements ==
    ParagraphElements \cup ImageElements \cup VideoElements \cup BorderlineElements
    \cup FontSizeElements \cup ColorElements \cup FontElements

\* Most style fragments already on a cell's attribute object.
MaxFragments == 1

StyleFragments == {"font-weight:bold;", "width: 10px;"}

CellStyles ==
    {Str(t) : t \in UNION {[1..k -> StyleFragments] : k \in 0..MaxFragments}}

\* The attribute object a cell's setDOMAttr is handed: colspan set or not,
\* style absent or already written.
CellAttrs ==
    {renderSpec("td", [colspan |-> c, style |-> x]).attrs :
        c \in {Null, Str(<<"2">>)}, x \in CellStyles \cup {Null}}

BackgroundValues ==
    {Null, Str(<<>>), Str(<<"#ff0000">>), Str(<<"rgb(255, 0, 0)">>), Str(<<"red">>)}

-----------------------------------------------------------------------------
(* Evaluation of the module, statement by statement *)

\* What the last call into the schema was given and what it returned.
Call(op, arg, dom, result) ==
    [op |-> op, arg |-> arg, dom |-> dom, result |-> result]

Init ==
    /\ pc = "nodes"
    /\ heap = (BasicMarksRef :> BasicMarkKeys)
    /\ nodes = None
    /\ schema = None
    /\ call = Call("none", None, None, None)

BuildNodes ==
    /\ pc = "nodes"
    /\ nodes' = NodesLiteral
    /\ pc' = "marks"
    /\ UNCHANGED <<heap, schema, call>>

BuildMarks ==
    /\ pc = "marks"
    /\ heap' = (MarksRef :> MarksLiteral(heap)) @@ heap
    /\ pc' = "deleteCode"
    /\ UNCHANGED <<nodes, schema, call>>

DeleteStatement(at, key, next) ==
    /\ pc = at
    /\ heap' = DeleteProperty(heap, MarksRef, key)
    /\ pc' = next
    /\ UNCHANGED <<nodes, schema, call>>

DeleteCode == DeleteStatement("deleteCode", "code", "deleteLink")

DeleteLink == DeleteStatement("deleteLink", "link", "deleteEm")

\* As DeleteEm, had the statement been left out.
DeleteEmSkipped ==
    /\ pc = "deleteEm"
    /\ pc' = "deleteFontSize"
    /\ UNCHANGED <<heap, nodes, schema, call>>

DeleteEm == DeleteStatement("deleteEm", "em", "deleteFontSize")

DeleteFontSize == DeleteStatement("deleteFontSize", "fontSize", "deleteColor")

DeleteColor == DeleteStatement("deleteColor", "color", "schema")

\* new Schema({nodes, marks}): the schema is given the keys the two objects
\* have at this point.
NewSchema ==
    /\ pc = "schema"
    /\ schema' = [nodes |-> DOMAIN nodes, marks |-> heap[MarksRef]]
    /\ pc' = "ready"
    /\ UNCHANGED <<heap, nodes, call>>

ModuleInit ==
    \/ BuildNodes
    \/ BuildMarks
    \/ DeleteCode
    \/ DeleteLink
    \/ DeleteEm
    \/ DeleteFontSize
    \/ DeleteColor
    \/ NewSchema

-----------------------------------------------------------------------------
(* Calls into the hooks once the module is evaluated *)

\* The serializer renders a node or a mark through its type's toDOM.
Serialize ==
    /\ pc = "ready"
    /\ \E node \in Nodes \cup Marks :
         call' = Call("toDOM", node, toDOM(node), None)
    /\ pc' = "serialized"
    /\ UNCHANGED <<heap, nodes, schema>>

\* The parser reads the element the serializer has just produced.
ParseSerialized ==
    /\ pc = "serialized"
    /\ call' = Call("parseDOM", call.arg, call.dom, parseDOM(call.dom))
    /\ pc' = "returned"
    /\ UNCHANGED <<heap, nodes, schema>>

\* The parser reads an element of foreign markup.
ParseMarkup ==
    /\ pc = "ready"
    /\ \E dom \in Elements :
         call' = Call("parseDOM", None, dom, parseDOM(dom))
    /\ pc' = "returned"
    /\ UNCHANGED <<heap, nodes, schema>>

\* colorToHex is called on a color value.
CallColorToHex ==
    /\ pc = "ready"
    /\ \E color \in ColorInputs :
         call' = Call("colorToHex", color, None, colorToHex(color))
    /\ pc' = "returned"
    /\ UNCHANGED <<heap, nodes, schema>>

\* The table code writes a cell's background into the cell's attributes.
EncodeCellBackground ==
    /\ pc = "ready"
    /\ \E value \in BackgroundValues, attrs \in CellAttrs :
         call' = Call("setDOMAttr", [value |-> value, attrs |-> attrs], None,
                      setDOMAttr(value, attrs))
    /\ pc' = "returned"
    /\ UNCHANGED <<heap, nodes, schema>>

\* The caller takes the result; the schema is ready for the next call.
Return ==
    /\ pc \in {"serialized", "returned"}
    /\ call' = Call("none", None, None, None)
    /\ pc' = "ready"
    /\ UNCHANGED <<heap, nodes, schema>>

Next ==
    \/ ModuleInit
    \/ Serialize
    \/ ParseSerialized
    \/ ParseMarkup
    \/ CallColorToHex
    \/ EncodeCellBackground
    \/ Return

Spec == Init /\ [][Next]_vars

-----------------------------------------------------------------------------
(* Properties *)

\* The module has been evaluated to its end.
Evaluated == pc \in {"ready", "serialized", "returned"}

\* A parse of an element has returned.
Parsed == pc = "returned" /\ call.op = "parseDOM"

\* A parse of an element that toDOM produced has returned.
RoundTripped == Parsed /\ call.arg # None

CanonicalAligns == {Str(<<"left">>), Str(<<"center">>), Str(<<"right">>)}

CanonicalStyles == {Str(<<"1">>), Str(<<"2">>), Str(<<"3">>), Str(<<"4">>)}

\* The attributes of a node are canonical values of its type.
Canonical(node) ==
    CASE node.type = "paragraph"  -> node.attrs.align \in CanonicalAligns
      [] node.type = "borderline" -> node.attrs.style \in CanonicalStyles
      [] node.type = "image"      -> IsStr(node.attrs.src)
                                     /\ (IsStr(node.attrs.desc) \/ node.attrs.desc = Null)
      [] node.type = "video"      -> /\ IsStr(node.attrs.source)
                                     /\ IsStr(node.attrs.source_id)
                                     /\ IsStr(node.attrs.url)
                                     /\ IsStr(node.attrs.title)
                                     /\ IsStr(node.attrs.thumbnail)
      [] OTHER -> FALSE

\* C1: for a paragraph, image, video or borderline node whose attributes are
\* canonical, the getAttrs of the node's type applied to the element its
\* toDOM produced returns exactly the node's attributes.
C1_RoundTrip ==
    (RoundTripped /\ Canonical(call.arg)) =>
        /\ MatchingRule(call.dom) = call.arg.type
        /\ call.result = call.arg.attrs

\* An image without description has been encoded and decoded back to null.
C1_Witness ==
    /\ RoundTripped
    /\ call.arg.type = "image"
    /\ call.arg.attrs.desc = Null
    /\ call.arg.attrs.src = Str(<<"a">>)
    /\ call.result = call.arg.attrs

\* The source value a color rule hands to colorToHex.
ColorSource(dom) ==
    IF MatchingRule(dom) = "color" THEN styleValue(dom, "color: ")
    ELSE getAttribute(dom, "color")

\* C2: every element that matches a parse rule decodes to an attribute record
\* and nothing is thrown; when a color rule's value is one the color parser
\* does not recognise, the color attribute takes its default 'black'.
C2_DecodeTotal ==
    (Parsed /\ MatchingRule(call.dom) # "none") =>
        /\ call.result # TypeError
        /\ (/\ MatchingRule(call.dom) \in {"color", "font[color]"}
            /\ normalizeColor(ColorSource(call.dom)) = Null)
           => call.result = [color |-> Str(<<"black">>)]

\* The red, green and blue bytes of 0xRRGGBBAA, each as two lowercase digits.
RgbDigits(x) == Hex2(x.hi \div 256) \o Hex2(x.hi % 256) \o Hex2(x.lo \div 256)

\* C3: for a color input that parses to a 32 bit integer 0xRRGGBBAA,
\* colorToHex returns '#' and the six lowercase hexadecimal digits of R, G
\* and B, zero padded, without the alpha byte, and colorToHex of that result
\* is the result again.
C3_ColorToHex ==
    (pc = "returned" /\ call.op = "colorToHex" /\ normalizeColor(call.arg) # Null) =>
        /\ call.result = Str(<<"#">> \o RgbDigits(normalizeColor(call.arg)))
        /\ Len(call.result.v) = 7
        /\ \A i \in 2..7 : call.result.v[i] \in {HexDigits[k] : k \in 1..16}
        /\ colorToHex(call.result) = call.result

\* colorToHex has been called on a color whose integer has three leading
\* zero digits.
C3_Witness ==
    /\ pc = "returned"
    /\ call.op = "colorToHex"
    /\ call.arg = Str(<<"#", "0", "0", "0", "1", "a", "b", "0", "f">>)
    /\ call.result = Str(<<"#", "0", "0", "0", "1", "a", "b">>)

TablePercent ==
    (1 :> Str(<<"60%">>)) @@ (2 :> Str(<<"80%">>)) @@ (3 :> Str(<<"100%">>))
    @@ (4 :> Str(<<"120%">>)) @@ (5 :> Str(<<"140%">>))

\* C4: for each level 1..5 the fontSize toDOM emits the table's percent value
\* (60%, 80%, 100%, 120%, 140%) and getAttrs of that value is the level; a
\* font-size value other than '60%', '80%', '120%', '140%' decodes to 3.
C4_FontSizeTable ==
    (Parsed /\ MatchingRule(call.dom) = "font-size") =>
        /\ \A level \in 1..5 :
             (call.arg # None /\ call.arg.attrs.size = Num(level)) =>
                /\ styleValue(call.dom, "font-size: ") = TablePercent[level]
                /\ call.result = [size |-> Num(level)]
        /\ (styleValue(call.dom, "font-size: ")
                \notin {TablePercent[1], TablePercent[2], TablePercent[4], TablePercent[5]})
           => call.result = [size |-> Num(3)]

\* Level 5 has been encoded as 140% and decoded back to 5.
C4_Witness ==
    /\ RoundTripped
    /\ call.arg.type = "fontSize"
    /\ call.arg.attrs.size = Num(5)
    /\ styleValue(call.dom, "font-size: ") = Str(<<"140%">>)
    /\ call.result = [size |-> Num(5)]

\* C5: a p element decodes to an align of left, center or right: to its
\* text-align when that is exactly one of the three, to left for every other
\* text-align, the empty one of an element without the style included.
C5_AlignDecode ==
    (Parsed /\ call.dom.tag = "p") =>
        /\ call.result.align \in CanonicalAligns
        /\ (styleTextAlign(call.dom) \in CanonicalAligns)
           => call.result.align = styleTextAlign(call.dom)
        /\ (styleTextAlign(call.dom) \notin CanonicalAligns)
           => call.result.align = Str(<<"left">>)

\* A justified paragraph of foreign markup has been decoded to left.
C5_Witness ==
    /\ Parsed
    /\ call.dom.tag = "p"
    /\ styleTextAlign(call.dom) = Str(<<"justify">>)
    /\ call.result = [align |-> Str(<<"left">>)]

\* C6: an hr element decodes to a style of '1', '2', '3' or '4': to its
\* data-style when that is exactly one of the four, to '1' when data-style
\* is missing, empty or anything else.
C6_StyleDecode ==
    (Parsed /\ call.dom.tag = "hr") =>
        /\ call.result.style \in CanonicalStyles
        /\ (getAttribute(call.dom, "data-style") \in CanonicalStyles)
           => call.result.style = getAttribute(call.dom, "data-style")
        /\ (getAttribute(call.dom, "data-style") \notin CanonicalStyles)
           => call.result.style = Str(<<"1">>)

\* <hr data-style="9"> has been decoded to style '1'.
C6_Witness ==
    /\ Parsed
    /\ call.dom.tag = "hr"
    /\ getAttribute(call.dom, "data-style") = Str(<<"9">>)
    /\ call.result = [style |-> Str(<<"1">>)]

\* C7: once the five delete statements have run, the marks object, and the
\* marks the schema is built from, are exactly strong and underline.
C7_ActiveMarks ==
    /\ (pc = "schema" \/ Evaluated) => heap[MarksRef] = {"strong", "underline"}
    /\ Evaluated => schema.marks = {"strong", "underline"}

\* The schema has been built from a marks object that once held seven keys.
C7_Witness ==
    /\ pc = "ready"
    /\ schema.marks = {"strong", "underline"}
    /\ heap[MarksRef] = schema.marks
    /\ {"code", "link", "em"} \subseteq heap[BasicMarksRef]

\* The style already on a cell's attribute object, '' when there is none.
StyleBefore(attrs) == IF "style" \in DOMAIN attrs THEN attrs["style"] ELSE Str(<<>>)

\* C8: with a non-empty background the cell's style becomes the style it had
\* ('' when it had none) followed by 'background-color: <value>;' and no
\* other attribute changes; with a null or empty background the attribute
\* object is left as it was.
C8_BackgroundAppends ==
    (pc = "returned" /\ call.op = "setDOMAttr") =>
        IF IsStr(call.arg.value) /\ call.arg.value.v # <<>>
        THEN /\ DOMAIN call.result = DOMAIN call.arg.attrs \cup {"style"}
             /\ call.result["style"].v =
                    StyleBefore(call.arg.attrs).v
                    \o <<"background-color: ">> \o call.arg.value.v \o <<";">>
             /\ \A a \in DOMAIN call.arg.attrs \ {"style"} :
                    call.result[a] = call.arg.attrs[a]
        ELSE call.result = call.arg.attrs

\* A cell styled font-weight:bold; has been given the background #ff0000.
C8_Witness ==
    /\ pc = "returned"
    /\ call.op = "setDOMAttr"
    /\ StyleBefore(call.arg.attrs) = Str(<<"font-weight:bold;">>)
    /\ call.arg.value = Str(<<"#ff0000">>)
    /\ call.result["style"] =
          Str(<<"font-weight:bold;", "background-color: ", "#ff0000", ";">>)

\* C9: every name a content model of the node catalog uses (block in doc,
\* inline in paragraph, text and hardBreak in quote and headline, paragraph
\* in the table cells, and the names the table nodes use) is a node type of
\* the catalog or a group one of its node types declares.
C9_NoDangling ==
    (pc # "nodes") =>
        /\ Dangling(nodes) = {}
        /\ \A n \in DOMAIN nodes : \A r \in ContentRefs(nodes[n].content) :
              r \in DOMAIN nodes \/ \E m \in DOMAIN nodes : nodes[m].group = r

\* The catalog is built and its content models use the names the claim lists.
C9_Witness ==
    /\ pc = "ready"
    /\ ContentRefs(nodes.doc.content) = {"block"}
    /\ ContentRefs(nodes.paragraph.content) = {"inline"}
    /\ ContentRefs(nodes.quote.content) = {"text", "hardBreak"}
    /\ ContentRefs(nodes.headline.content) = {"text", "hardBreak"}
    /\ ContentRefs(nodes.table_cell.content) = {"paragraph"}
    /\ schema.nodes = DOMAIN nodes

\* C10: the imported basic marks object keeps every key it had through the
\* whole evaluation of the module (code, link and em among them); the keys
\* are lost by the local marks object only.
C10_BaseCatalogKept ==
    /\ heap[BasicMarksRef] = BasicMarkKeys
    /\ Evaluated =>
          /\ {"code", "link", "em"} \subseteq heap[BasicMarksRef]
          /\ {"code", "link", "em"} \cap heap[MarksRef] = {}

\* The five deletes have run on the local object.
C10_Witness ==
    /\ pc = "ready"
    /\ heap[MarksRef] = {"strong", "underline"}
    /\ heap[BasicMarksRef] = {"link", "em", "strong", "code"}

====
